---- MODULE Spec2Model ----
(***************************************************************************)
(* Authentication core of the healthcare appointment system (src/auth.py,  *)
(* the users table of src/models.py): registration, login and logout, the  *)
(* role gate, the Google OAuth login and the password reset, as a state    *)
(* machine over the users table, the browser session, the clock, the reset *)
(* links mailed and the requests in flight.                                *)
(*                                                                         *)
(* Strings the code inspects character by character (phone numbers,        *)
(* passwords) are sequences of one-character strings.  Python's None is    *)
(* None for atoms and NoneStr for such character sequences.                *)
(***************************************************************************)
EXTENDS Integers, Sequences, FiniteSets, TLC

VARIABLES
    users,      \* the rows of the users table
    nextId,     \* the next value of the autoincrement primary key
    proc,       \* per worker: the request it is handling, or its response
    session,    \* the browser session (flask.session)
    nextState,  \* the next anti-CSRF state uuid4() returns
    now,        \* the server's clock, in seconds
    mailbox,    \* the reset tokens mail.send has delivered
    call,       \* a validator called on its own: function, argument, result
    request,    \* history: the request received last (when a run records it)
    passLog,    \* history: the states that passed the callback's check
    hist        \* history: tokens issued, gate decisions, resets redeemed

vars == <<users, nextId, proc, session, nextState, now, mailbox, call,
          request, passLog, hist>>

-----------------------------------------------------------------------------
(* Bounds of the model *)

\* accounts the users table may hold
MaxUsers == 2
\* gate decisions the history keeps
MaxDecisions == 2
\* successful redemptions of reset tokens the history keeps
MaxRedeemed == 2
\* anti-CSRF states uuid4() hands out
MaxStates == 2

-----------------------------------------------------------------------------
(* Values *)

None == "None"
NoneStr == <<"None">>

Procs == {"w1", "w2"}

UserRoles == {"ADMIN", "DOCTOR", "NURSE", "PATIENT", "RECEPTIONIST"}

Digits == {"0", "1", "2", "3", "4", "5", "6", "7", "8", "9"}
Letters ==
    {"a", "b", "c", "d", "e", "f", "g", "h", "n", "o", "p", "r", "s", "t", "w", "x",
     "A", "B", "Z"}

\* characters outside ASCII are written by their code point
\* ARABIC-INDIC DIGIT THREE, a decimal digit for a str pattern's \d
UnicodeDigits == {"U+0663"}
\* LINE FEED
LF == "U+000A"

SAFARICOM_PREFIXES ==
    { 
      <<"0","7","0","1">>, <<"0","7","0","2">>, <<"0","7","0","3">>, <<"0","7","0","4">>, <<"0","7","0","5">>,
      <<"0","7","0","6">>, <<"0","7","0","7">>, <<"0","7","0","8">>, <<"0","7","0","9">>, <<"0","7","1","0">>,
      <<"0","7","1","1">>, <<"0","7","1","2">>, <<"0","7","1","3">>, <<"0","7","1","4">>, <<"0","7","1","5">>,
      <<"0","7","1","6">>, <<"0","7","1","7">>, <<"0","7","1","8">>, <<"0","7","1","9">>, <<"0","7","2","0">>,
      <<"0","7","2","1">>, <<"0","7","2","2">>, <<"0","7","2","3">>, <<"0","7","2","4">>, <<"0","7","2","5">>,
      <<"0","7","2","6">>, <<"0","7","2","7">>, <<"0","7","2","8">>, <<"0","7","2","9">>, <<"0","7","4","0">>,
      <<"0","7","4","1">>, <<"0","7","4","2">>, <<"0","7","4","3">>, <<"0","7","4","4">>, <<"0","7","4","5">>,
      <<"0","7","4","6">>, <<"0","7","4","7">>, <<"0","7","4","8">>, <<"0","7","4","9">>, <<"0","7","5","7">>,
      <<"0","7","5","8">>, <<"0","7","6","8">>, <<"0","7","6","9">>, <<"0","7","9","0">>, <<"0","7","9","1">>,
      <<"0","7","9","2">>, <<"0","7","9","3">>, <<"0","7","9","4">>, <<"0","7","9","5">>, <<"0","7","9","6">>,
      <<"0","7","9","7">>, <<"0","7","9","8">>, <<"0","7","9","9">>, <<"0","1","1","0">>, <<"0","1","1","1">>,
      <<"0","1","1","2">>, <<"0","1","1","3">>, <<"0","1","1","4">>, <<"0","1","1","5">> }

-----------------------------------------------------------------------------
(* Validators *)

StartsWith(s, pre) == Len(s) >= Len(pre) /\ SubSeq(s, 1, Len(pre)) = pre

\* \d of a str pattern: any Unicode decimal digit
IsDigit(c) == c \in Digits \cup UnicodeDigits

\* Python truthiness of a str-or-None value
Falsy(s) == s = NoneStr \/ s = <<>>

normalize_phone(phone) ==
    IF Falsy(phone) THEN <<>>
    ELSE LET d == SelectSeq(phone, IsDigit) IN
         IF StartsWith(d, <<"+", "2", "5", "4">>)
         THEN <<"0">> \o SubSeq(d, 5, Len(d))
         ELSE IF StartsWith(d, <<"2", "5", "4">>) /\ Len(d) = 12
         THEN <<"0">> \o SubSeq(d, 4, Len(d))
         ELSE d

\* phonenumbers.parse(phone, "KE") followed by is_valid_number, for a string of
\* digits: a national significant number of 9 digits after the trunk 0, in a
\* mobile range (7xx, 10x, 11x) or a fixed-line range (2x..6x).
is_valid_number_KE(phone) ==
    /\ Len(phone) = 10
    /\ phone[1] = "0"
    /\ \/ phone[2] = "7"
       \/ phone[2] = "1" /\ phone[3] \in {"0", "1"}
       \/ phone[2] \in {"2", "4", "5", "6"}

is_valid_safaricom_phone(phone0) ==
    LET phone == normalize_phone(phone0) IN
    IF Falsy(phone) \/ Len(phone) < 10 THEN FALSE
    ELSE IF ~is_valid_number_KE(phone) THEN FALSE
    ELSE SubSeq(phone, 1, 4) \in SAFARICOM_PREFIXES

\* [A-Za-z\d]
IsAlnum(c) == c \in Letters \/ IsDigit(c)

\* (?=.*X) at the start of the string: an X that no line feed precedes, since
\* . matches any character but the line feed
Lookahead(s, X) ==
    \E i \in 1..Len(s) : s[i] \in X /\ \A j \in 1..(i - 1) : s[j] # LF

\* re.match(r'^(?=.*[A-Za-z])(?=.*\d)[A-Za-z\d]{8,}$', password): k
\* characters of the class, 8 or more, up to a place where $ matches, which is
\* the end of the string or just before a line feed that ends it; re.match
\* raises TypeError when password is None.
validate_password(password) ==
    IF password = NoneStr THEN "TypeError"
    ELSE IF /\ Lookahead(password, Letters)
            /\ Lookahead(password, Digits \cup UnicodeDigits)
            /\ \E k \in 8..Len(password) :
                   /\ \A i \in 1..k : IsAlnum(password[i])
                   /\ \/ k = Len(password)
                      \/ k = Len(password) - 1 /\ password[Len(password)] = LF
    THEN "True" ELSE "False"

\* werkzeug: a salted one-way hash and its verification
generate_password_hash(password) == <<"pbkdf2">> \o password

check_password_hash(pwhash, password) ==
    pwhash # NoneStr /\ password # NoneStr /\ pwhash = <<"pbkdf2">> \o password

-----------------------------------------------------------------------------
(* The users table (models.User) and the database session *)

User(id, userfullnames, password, email, phone_number, role) ==
    [id |-> id, userfullnames |-> userfullnames, password |-> password,
     email |-> email, phone_number |-> phone_number, role |-> role]

\* nullable=False on userfullnames, password, email, phone_number, role
NotNullOK(u) ==
    /\ u.userfullnames # None
    /\ u.password # NoneStr
    /\ u.email # None
    /\ u.phone_number # NoneStr
    /\ u.role # None

\* the table without its unique constraints
UniqueOK_unconstrained(u, table) == TRUE

\* unique=True on email and on phone_number
UniqueOK(u, table) ==
    \A v \in table : v.email # u.email /\ v.phone_number # u.phone_number

\* db.session.add(u); db.session.commit(): the INSERT succeeds only if the
\* table's constraints admit the row and the database itself does not fail.
CommitOK(u, table, dbfail) == ~dbfail /\ NotNullOK(u) /\ UniqueOK(u, table)

\* User.query.filter_by(email=email).first()
ByEmail(email) == {u \in users : u.email = email}

\* User.query.filter_by(phone_number=phone).first()
ByPhone(phone) == {u \in users : u.phone_number = phone}

-----------------------------------------------------------------------------
(* Access tokens and the role gate *)

\* seconds in a day
Day == 86400

\* expires_delta=timedelta(days=30)
TokenLifetime == 30 * Day

NoToken == [sub |-> 0, email |-> None, role |-> None, sig |-> FALSE,
            iat |-> 0, exp |-> 0, present |-> FALSE]

\* the lifetime ten times as long
generate_token_long_lived(user) ==
    [sub |-> user.id, email |-> user.email, role |-> user.role, sig |-> TRUE,
     iat |-> now, exp |-> now + 10 * TokenLifetime, present |-> TRUE]

\* create_access_token(identity=str(user.id), additional_claims={email, role},
\* expires_delta=timedelta(days=30)): signed now, expiring 30 days from now
generate_token(user) ==
    [sub |-> user.id, email |-> user.email, role |-> user.role, sig |-> TRUE,
     iat |-> now, exp |-> now + TokenLifetime, present |-> TRUE]

\* verify_jwt_in_request(): the request carries a token whose signature
\* verifies and whose expiry lies ahead of the clock; otherwise it raises and
\* the JWT extension answers 401.
verify_jwt_in_request(tok) == tok.present /\ tok.sig /\ now < tok.exp

\* the gate letting a token without a role claim through
role_required_absent_role_passes(required_role, tok) ==
    IF ~verify_jwt_in_request(tok) THEN "raise"
    ELSE IF tok.role # None /\ tok.role # required_role THEN "403"
    ELSE "run"

\* the gate checking only that the token is valid
role_required_any_role(required_role, tok) ==
    IF ~verify_jwt_in_request(tok) THEN "raise" ELSE "run"

\* role_required(required_role) around a handler: verify_jwt_in_request
\* raises ("raise"), the wrapper answers 403 ("403"), or the handler runs ("run")
role_required(required_role, tok) ==
    IF ~verify_jwt_in_request(tok) THEN "raise"
    ELSE IF tok.role = None \/ tok.role # required_role THEN "403"
    ELSE "run"

\* the answer to a request whose token verify_jwt_in_request refuses
unauthorized_status == 401

-----------------------------------------------------------------------------
(* Requests in flight: one slot per worker *)

Idle ==
    [pc |-> "idle", op |-> None, required |-> None, tok |-> NoToken,
     email |-> None, phone |-> NoneStr, password |-> NoneStr,
     userfullnames |-> None, role |-> None,
     status |-> 0, msg |-> None, ran |-> FALSE, caught |-> TRUE,
     dbs |-> "clean", cause |-> None, exchanged |-> FALSE,
     access_token |-> NoToken]

\* the handler returned: its locals are gone, the response is what is left
Respond(r, status, msg) ==
    [r EXCEPT !.pc = "done", !.status = status, !.msg = msg,
              !.email = None, !.phone = NoneStr, !.password = NoneStr,
              !.userfullnames = None]

\* an exception nobody catches leaves the view function: the framework answers
\* 500, and no handler code has rolled the database session back
Unhandled(r, cause) ==
    [Respond(r, 500, "Unhandled exception") EXCEPT !.caught = FALSE, !.cause = cause]

MsgEmail == "Invalid email address"
MsgPhone == "Invalid phone number. Must be a valid Safaricom number."
MsgPassword == "Password must be at least 8 characters long, contain letters and numbers"
MsgTaken == "Email or phone number already registered"
MsgRequired == "Email, phone, password, and full names are required"
MsgForbidden == "Forbidden: Access Denied"
MsgUnauthorized == "Missing or invalid token"

\* is_valid_email(email): validate_email of a well-formed, deliverable address
\* returns; of a malformed one raises EmailNotValidError (False); of None the
\* library raises either EmailNotValidError or an error the wrapper lets through.
ValidEmails == {"a@x.org", "b@x.org"}

is_valid_email(email) ==
    IF email = None THEN {"False", "raise"}
    ELSE IF email \in ValidEmails THEN {"True"} ELSE {"False"}

\* a request before request.get_json() is read
Request(op, required, tok) ==
    [Idle EXCEPT !.op = op, !.required = required, !.tok = tok]

\* data = request.get_json() and the data.get(...) calls
Read(r, data) ==
    [r EXCEPT !.email = data.email, !.phone = data.phone,
              !.password = data.password, !.userfullnames = data.userfullnames]

\* the pre-check looking at the e-mail only
already_registered_email_only(email, phone) == ByEmail(email) # {}

\* the pre-check comparing phone numbers in their normal form
already_registered_normalized(email, phone) ==
    \/ ByEmail(email) # {}
    \/ \E u \in users : normalize_phone(u.phone_number) = normalize_phone(phone)

\* User.query.filter_by(email=email).first() or
\* User.query.filter_by(phone_number=phone).first()
already_registered(email, phone) == ByEmail(email) # {} \/ ByPhone(phone) # {}

\* the checks of register, lines 138-148; ev is what is_valid_email did
register_checks(r, ev) ==
    IF ev = "raise" THEN Unhandled(r, "email")
    ELSE IF ev = "False" THEN Respond(r, 400, MsgEmail)
    ELSE IF Falsy(r.phone) \/ ~is_valid_safaricom_phone(r.phone)
    THEN Respond(r, 400, MsgPhone)
    ELSE IF validate_password(r.password) = "TypeError" THEN Unhandled(r, "password")
    ELSE IF validate_password(r.password) = "False" THEN Respond(r, 400, MsgPassword)
    ELSE IF already_registered(r.email, r.phone) THEN Respond(r, 400, MsgTaken)
    ELSE [r EXCEPT !.pc = "commit"]

\* the checks of register_admin, lines 166-176
register_admin_checks(r, ev) ==
    IF ev = "raise" THEN Unhandled(r, "email")
    ELSE IF ev = "False" THEN Respond(r, 400, MsgEmail)
    ELSE IF ~is_valid_safaricom_phone(r.phone) THEN Respond(r, 400, MsgPhone)
    ELSE IF validate_password(r.password) = "TypeError" THEN Unhandled(r, "password")
    ELSE IF validate_password(r.password) = "False" THEN Respond(r, 400, MsgPassword)
    ELSE IF already_registered(r.email, r.phone) THEN Respond(r, 400, MsgTaken)
    ELSE [r EXCEPT !.pc = "commit"]

\* the checks of register_user, lines 210-223
register_user_checks(r, ev) ==
    IF r.email = None \/ Falsy(r.phone) \/ Falsy(r.password) \/ r.userfullnames = None
    THEN Respond(r, 400, MsgRequired)
    ELSE IF ev = "raise" THEN Unhandled(r, "email")
    ELSE IF ev = "False" THEN Respond(r, 400, MsgEmail)
    ELSE IF ~is_valid_safaricom_phone(r.phone) THEN Respond(r, 400, MsgPhone)
    ELSE IF validate_password(r.password) = "TypeError" THEN Unhandled(r, "password")
    ELSE IF validate_password(r.password) = "False" THEN Respond(r, 400, MsgPassword)
    ELSE IF already_registered(r.email, r.phone) THEN Respond(r, 400, MsgTaken)
    ELSE [r EXCEPT !.pc = "commit"]

\* the decorators of the admin routes: the gate answers, or the body runs
Gated(r, body) ==
    LET g == role_required(r.required, r.tok) IN
    IF g = "raise" THEN Respond(r, unauthorized_status, MsgUnauthorized)
    ELSE IF g = "403" THEN Respond(r, 403, MsgForbidden)
    ELSE [body EXCEPT !.ran = TRUE]

-----------------------------------------------------------------------------
(* Registration *)

Capitalized(role) ==
    CASE role = "DOCTOR" -> "Doctor registered successfully"
      [] role = "NURSE" -> "Nurse registered successfully"
      [] role = "RECEPTIONIST" -> "Receptionist registered successfully"
      [] OTHER -> "registered successfully"

\* why db.session.commit() raised
FailureCause(u, table, dbfail) ==
    IF dbfail THEN "db"
    ELSE IF ~NotNullOK(u) THEN "notnull"
    ELSE "unique"

\* POST /register, lines 129-148
register(p, data) ==
    /\ proc[p].pc = "idle"
    /\ \E ev \in is_valid_email(data.email) :
         LET r == [Request("register", None, NoToken)
                     EXCEPT !.role = "PATIENT", !.ran = TRUE]
         IN proc' = [proc EXCEPT ![p] = register_checks(Read(r, data), ev)]
    /\ UNCHANGED <<users, nextId, session, nextState, now, mailbox, call>>

\* POST /admin/register-admin, lines 157-176
register_admin(p, tok, data) ==
    /\ proc[p].pc = "idle"
    /\ \E ev \in is_valid_email(data.email) :
         LET r == [Request("register_admin", "ADMIN", tok) EXCEPT !.role = "ADMIN"]
         IN proc' = [proc EXCEPT ![p] =
                       Gated(r, register_admin_checks(Read(r, data), ev))]
    /\ UNCHANGED <<users, nextId, session, nextState, now, mailbox, call>>

\* register_user(role), lines 203-223, behind the decorators of its route
register_user(p, op, role, tok, data) ==
    /\ proc[p].pc = "idle"
    /\ \E ev \in is_valid_email(data.email) :
         LET r == [Request(op, "ADMIN", tok) EXCEPT !.role = role]
         IN proc' = [proc EXCEPT ![p] =
                       Gated(r, register_user_checks(Read(r, data), ev))]
    /\ UNCHANGED <<users, nextId, session, nextState, now, mailbox, call>>

\* POST /admin/register-doctor
register_doctor(p, tok, data) == register_user(p, "register_doctor", "DOCTOR", tok, data)

\* POST /admin/register-nurse
register_nurse(p, tok, data) == register_user(p, "register_nurse", "NURSE", tok, data)

\* POST /admin/register-receptionist
register_receptionist(p, tok, data) ==
    register_user(p, "register_receptionist", "RECEPTIONIST", tok, data)

\* the row the handler builds from the request it validated
NewUser(r) ==
    User(nextId, r.userfullnames, generate_password_hash(r.password),
         r.email, r.phone, r.role)

\* register, lines 150-155: add and commit, no exception handler
register_commit(p) ==
    /\ proc[p].pc = "commit"
    /\ proc[p].op = "register"
    /\ \E dbfail \in BOOLEAN :
         LET r == proc[p]
             u == NewUser(r)
         IN IF CommitOK(u, users, dbfail)
            THEN /\ Cardinality(users) < MaxUsers
                 /\ users' = users \cup {u}
                 /\ nextId' = nextId + 1
                 /\ proc' = [proc EXCEPT ![p] =
                               Respond(r, 201, "User registered successfully")]
            ELSE /\ proc' = [proc EXCEPT ![p] =
                               Unhandled([r EXCEPT !.dbs = "failed"],
                                         FailureCause(u, users, dbfail))]
                 /\ UNCHANGED <<users, nextId>>
    /\ UNCHANGED <<session, nextState, now, mailbox, call>>

\* register_admin, lines 178-183: add and commit, no exception handler
register_admin_commit(p) ==
    /\ proc[p].pc = "commit"
    /\ proc[p].op = "register_admin"
    /\ \E dbfail \in BOOLEAN :
         LET r == proc[p]
             u == NewUser(r)
         IN IF CommitOK(u, users, dbfail)
            THEN /\ Cardinality(users) < MaxUsers
                 /\ users' = users \cup {u}
                 /\ nextId' = nextId + 1
                 /\ proc' = [proc EXCEPT ![p] =
                               Respond(r, 201, "Admin registered successfully")]
            ELSE /\ proc' = [proc EXCEPT ![p] =
                               Unhandled([r EXCEPT !.dbs = "failed"],
                                         FailureCause(u, users, dbfail))]
                 /\ UNCHANGED <<users, nextId>>
    /\ UNCHANGED <<session, nextState, now, mailbox, call>>

\* register_user, lines 225-233: add and commit inside try/except with rollback
register_user_commit(p) ==
    /\ proc[p].pc = "commit"
    /\ proc[p].op \in {"register_doctor", "register_nurse", "register_receptionist"}
    /\ \E dbfail \in BOOLEAN :
         LET r == proc[p]
             u == NewUser(r)
         IN IF CommitOK(u, users, dbfail)
            THEN /\ Cardinality(users) < MaxUsers
                 /\ users' = users \cup {u}
                 /\ nextId' = nextId + 1
                 /\ proc' = [proc EXCEPT ![p] = Respond(r, 201, Capitalized(r.role))]
            ELSE /\ proc' = [proc EXCEPT ![p] =
                               Respond([r EXCEPT !.dbs = "clean",
                                                 !.cause = FailureCause(u, users, dbfail)],
                                       500, "Internal Server Error")]
                 /\ UNCHANGED <<users, nextId>>
    /\ UNCHANGED <<session, nextState, now, mailbox, call>>

\* the request is over: the response leaves, the request's database session is
\* discarded and the worker takes the next request
teardown(p) ==
    /\ proc[p].pc = "done"
    /\ proc' = [proc EXCEPT ![p] = Idle]
    /\ UNCHANGED <<users, nextId, session, nextState, now, mailbox, call>>

-----------------------------------------------------------------------------
(* A handler behind role_required(required_role) that answers 200 *)

\* role_required's wrapper, lines 76-84, around a view function fn
guarded_request(p, required_role, tok) ==
    /\ proc[p].pc = "idle"
    /\ LET r == Request("guarded", required_role, tok)
       IN proc' = [proc EXCEPT ![p] = Gated(r, Respond(r, 200, "OK"))]
    /\ UNCHANGED <<users, nextId, session, nextState, now, mailbox, call>>

-----------------------------------------------------------------------------
(* Google OAuth login *)

MsgCSRF == "Invalid state, possible CSRF attack"
MsgUserInfo == "Failed to retrieve user information"

\* GET /login/google, lines 31-37: uuid4() is a state never handed out before
google_login ==
    /\ nextState <= MaxStates
    /\ session' = [session EXCEPT !.oauth_state = nextState]
    /\ nextState' = nextState + 1
    /\ UNCHANGED <<users, nextId, proc, now, mailbox, call>>

\* session.get in place of session.pop: the stored state stays
pop_oauth_state_keeps(s) == s

\* session.pop("oauth_state", None): the session without the stored state
pop_oauth_state(s) == [s EXCEPT !.oauth_state = 0]

\* the check without the comparison of the two states
state_verified_presence_only(stored_state, received_state) ==
    stored_state # 0 /\ received_state # 0

\* line 45, negated: both states present and equal
state_verified(stored_state, received_state) ==
    stored_state # 0 /\ received_state # 0 /\ stored_state = received_state

\* lines 64-66: the identity mirrored into the browser session
mirror(s, user) ==
    [s EXCEPT !.user_id = user.id, !.user_email = user.email,
              !.user_role = user.role]

\* GET /callback/google, lines 39-56 (and 63-69 when the account exists).
\* received_state: the state query parameter (0: missing); code_ok: whether
\* the provider accepts the authorization code; user_info: the e-mail of the
\* provider's profile (None: the profile has no email).
google_callback(p, received_state, code_ok, user_info) ==
    /\ proc[p].pc = "idle"
    /\ LET stored_state == session.oauth_state
           r == [Idle EXCEPT !.op = "google_callback", !.ran = TRUE]
           popped == pop_oauth_state(session)
       IN IF ~state_verified(stored_state, received_state)
          THEN /\ proc' = [proc EXCEPT ![p] = Respond(r, 400, MsgCSRF)]
               /\ session' = popped
          ELSE LET x == [r EXCEPT !.exchanged = TRUE] IN
                  IF ~code_ok
                  THEN /\ proc' = [proc EXCEPT ![p] =
                                     Respond([x EXCEPT !.cause = "provider"], 500, "str(e)")]
                       /\ session' = popped
                  ELSE IF user_info = None
                  THEN /\ proc' = [proc EXCEPT ![p] = Respond(x, 400, MsgUserInfo)]
                       /\ session' = popped
                  ELSE IF ByEmail(user_info) # {}
                  THEN LET user == CHOOSE u \in ByEmail(user_info) : TRUE IN
                       /\ proc' = [proc EXCEPT ![p] =
                                     Respond([x EXCEPT !.access_token = generate_token(user)],
                                             200, "Login successful")]
                       /\ session' = mirror(popped, user)
                  ELSE /\ proc' = [proc EXCEPT ![p] =
                                     [x EXCEPT !.pc = "provision", !.email = user_info,
                                               !.userfullnames = "", !.role = "PATIENT"]]
                       /\ session' = popped
    /\ UNCHANGED <<users, nextId, nextState, now, mailbox, call>>

\* google_callback, lines 58-71: the account is auto-provisioned
google_callback_provision(p) ==
    /\ proc[p].pc = "provision"
    /\ \E dbfail \in BOOLEAN :
         LET r == proc[p]
             user == User(nextId, r.userfullnames, NoneStr, r.email, NoneStr, r.role)
         IN IF CommitOK(user, users, dbfail)
            THEN /\ Cardinality(users) < MaxUsers
                 /\ users' = users \cup {user}
                 /\ nextId' = nextId + 1
                 /\ proc' = [proc EXCEPT ![p] =
                               Respond([r EXCEPT !.access_token = generate_token(user)],
                                       200, "Login successful")]
                 /\ session' = mirror(session, user)
            ELSE /\ proc' = [proc EXCEPT ![p] =
                               Respond([r EXCEPT !.dbs = "failed",
                                                 !.cause = FailureCause(user, users, dbfail)],
                                       500, "str(e)")]
                 /\ UNCHANGED <<users, nextId, session>>
    /\ UNCHANGED <<nextState, now, mailbox, call>>

-----------------------------------------------------------------------------
(* Password reset *)

\* a reset token: the e-mail it carries, whether its signature verifies under
\* the salt, and the timestamp signed into it
ResetToken(email, sig, iat) == [email |-> email, sig |-> sig, iat |-> iat]

\* max_age of serializer.loads
MaxAge == 3600

\* loads without max_age: the signature alone
loads_no_max_age(token) ==
    IF token.sig THEN token.email ELSE None

\* loads refusing a token that has been redeemed
loads_single_use(token) ==
    IF /\ token.sig /\ now - token.iat <= MaxAge
       /\ \A i \in 1..Len(hist.redeemed) : hist.redeemed[i].token # token
    THEN token.email ELSE None

\* serializer.loads(token, salt="reset-password-salt", max_age=3600): the
\* e-mail the token was signed for, or BadSignature / SignatureExpired
loads(token) ==
    IF token.sig /\ now - token.iat <= MaxAge THEN token.email ELSE None

\* the assignment reaching every row of the table
set_password_every_account(table, email, pwhash) ==
    {[u EXCEPT !.password = pwhash] : u \in table}

\* the assignment also resetting the role
set_password_and_role(table, email, pwhash) ==
    {IF u.email = email THEN [u EXCEPT !.password = pwhash, !.role = "ADMIN"] ELSE u :
        u \in table}

\* lines 301-306: user.password = ...; db.session.commit(), on the row that
\* User.query.filter_by(email=email).first() returned
set_password(table, email, pwhash) ==
    {IF u.email = email THEN [u EXCEPT !.password = pwhash] ELSE u : u \in table}

\* POST /reset-password/<token>, lines 285-308
reset_password(p, token, new_password) ==
    /\ proc[p].pc = "idle"
    /\ \E dbfail \in BOOLEAN :
         LET r == [Idle EXCEPT !.op = "reset_password", !.ran = TRUE]
             email == loads(token)
         IN IF email = None
            THEN /\ proc' = [proc EXCEPT ![p] = Respond(r, 400, "Invalid or expired token")]
                 /\ UNCHANGED users
            ELSE IF Falsy(new_password) \/ Len(new_password) < 6
            THEN /\ proc' = [proc EXCEPT ![p] =
                               Respond(r, 400, "Password must be at least 6 characters long")]
                 /\ UNCHANGED users
            ELSE IF ByEmail(email) = {}
            THEN /\ proc' = [proc EXCEPT ![p] = Respond(r, 404, "User not found")]
                 /\ UNCHANGED users
            ELSE IF dbfail
            THEN /\ proc' = [proc EXCEPT ![p] =
                               Unhandled([r EXCEPT !.email = email, !.dbs = "failed"], "db")]
                 /\ UNCHANGED users
            ELSE /\ users' = set_password(users, email,
                                          generate_password_hash(new_password))
                 /\ proc' = [proc EXCEPT ![p] =
                               Respond([r EXCEPT !.email = email], 200,
                                       "Password reset successful")]
    /\ UNCHANGED <<nextId, session, nextState, now, mailbox, call>>

\* serializer.dumps(email, salt="reset-password-salt"): signed, stamped now
dumps(email) == ResetToken(email, TRUE, now)

\* POST /forgot-password, lines 263-283; sent: whether mail.send delivers
forgot_password(p, email, sent) ==
    /\ proc[p].pc = "idle"
    /\ LET r == [Idle EXCEPT !.op = "forgot_password", !.ran = TRUE] IN
       IF ByEmail(email) = {}
       THEN /\ proc' = [proc EXCEPT ![p] = Respond(r, 404, "Email not found")]
            /\ UNCHANGED mailbox
       ELSE IF ~sent
       THEN /\ proc' = [proc EXCEPT ![p] = Unhandled(r, "mail")]
            /\ UNCHANGED mailbox
       ELSE /\ mailbox' = mailbox \cup {dumps(email)}
            /\ proc' = [proc EXCEPT ![p] =
                          Respond(r, 200, "Reset link sent to your email")]
    /\ UNCHANGED <<users, nextId, session, nextState, now, call>>

-----------------------------------------------------------------------------
(* Login and logout *)

MsgLoginRequired == "Email and password are required"
MsgLoginInvalid == "Invalid email or password"

\* POST /login, lines 235-257
login(p, email, password) ==
    /\ proc[p].pc = "idle"
    /\ LET r == [Idle EXCEPT !.op = "login", !.ran = TRUE] IN
       IF email = None \/ Falsy(password)
       THEN proc' = [proc EXCEPT ![p] = Respond(r, 400, MsgLoginRequired)]
       ELSE IF \/ ByEmail(email) = {}
               \/ \A u \in ByEmail(email) : ~check_password_hash(u.password, password)
       THEN proc' = [proc EXCEPT ![p] = Respond(r, 401, MsgLoginInvalid)]
       ELSE LET user == CHOOSE u \in ByEmail(email) : TRUE IN
            proc' = [proc EXCEPT ![p] =
                       Respond([r EXCEPT !.access_token = generate_token(user)],
                               200, "Login successful")]
    /\ UNCHANGED <<users, nextId, session, nextState, now, mailbox, call>>

\* POST /logout, lines 259-261
logout(p) ==
    /\ proc[p].pc = "idle"
    /\ proc' = [proc EXCEPT ![p] =
                  Respond([Idle EXCEPT !.op = "logout", !.ran = TRUE],
                          200, "Logout successful")]
    /\ UNCHANGED <<users, nextId, session, nextState, now, mailbox, call>>

-----------------------------------------------------------------------------
(* The clock *)

\* time passes: the clock reaches a later instant t
advance(t) ==
    /\ t > now
    /\ now' = t
    /\ UNCHANGED <<users, nextId, proc, session, nextState, mailbox, call>>

-----------------------------------------------------------------------------
(* Inputs *)

P0712 == <<"0", "7", "1", "2", "3", "4", "5", "6", "7", "8">>
P0722 == <<"0", "7", "2", "2", "0", "0", "0", "0", "0", "0">>
P0700 == <<"0", "7", "0", "0", "0", "0", "0", "0", "0", "0">>

PwStrong == <<"a", "b", "c", "1", "2", "3", "4", "5">>
PwNoDigit == <<"a", "b", "c", "d", "e", "f", "g", "h">>
PwSix == <<"a", "b", "c", "d", "e", "f">>
PwFive == <<"a", "b", "c", "1", "2">>

EmailInputs == ValidEmails \cup {None, "bad"}
PhoneInputs == {NoneStr, P0700, P0712, P0722}
PasswordInputs == {NoneStr, PwNoDigit, PwStrong}
NameInputs == {None, "Jane"}

\* request bodies; role is a field the client may add
Bodies ==
    [email : EmailInputs, phone : PhoneInputs, password : PasswordInputs,
     userfullnames : NameInputs, role : {None}]
    \cup [email : ValidEmails, phone : {P0712, P0722}, password : {PwStrong},
          userfullnames : {"Jane"}, role : {"ADMIN"}]

\* a token a client presents: its role claim, whether its signature verifies,
\* and when it was issued
Token(role, sig, iat) ==
    [sub |-> 1, email |-> "a@x.org", role |-> role, sig |-> sig,
     iat |-> iat, exp |-> iat + TokenLifetime, present |-> TRUE]

\* issued 31 days before the run starts
Stale == 0 - 31 * Day

TokenInputs ==
    {NoToken, Token("ADMIN", FALSE, 0), Token("ADMIN", TRUE, Stale),
     Token("ADMIN", TRUE, 0), Token("PATIENT", TRUE, 0),
     Token(None, TRUE, 0)}

-----------------------------------------------------------------------------
(* The state machine *)

NoData ==
    [email |-> None, phone |-> NoneStr, password |-> NoneStr,
     userfullnames |-> None, role |-> None]

NoResetToken == ResetToken(None, FALSE, 0)

NoRequest ==
    [op |-> None, tok |-> NoToken, data |-> NoData, state |-> 0, code_ok |-> FALSE,
     token |-> NoResetToken]

NoCall == [fn |-> None, arg |-> NoneStr, ret |-> NoneStr, ok |-> None]

NoHistory ==
    [issued |-> {}, decisions |-> {}, ops |-> {}, redeemed |-> <<>>,
     last |-> [e \in ValidEmails |-> NoneStr]]

Init ==
    /\ users = {}
    /\ nextId = 1
    /\ proc = [p \in Procs |-> Idle]
    /\ session = [oauth_state |-> 0, user_id |-> 0, user_email |-> None,
                  user_role |-> None]
    /\ nextState = 1
    /\ now = 0
    /\ mailbox = {}
    /\ call = NoCall
    /\ request = NoRequest
    /\ passLog = <<>>
    /\ hist = NoHistory

\* history: the request received, recorded when log is set
Received(log, op, tok, data) ==
    /\ request' = IF log
                  THEN [NoRequest EXCEPT !.op = op, !.tok = tok, !.data = data]
                  ELSE request
    /\ UNCHANGED <<passLog, hist>>

\* well-formed request bodies, for the runs about concurrent requests
GoodBodies ==
    {[email |-> "a@x.org", phone |-> P0712, password |-> PwStrong,
      userfullnames |-> "Jane", role |-> None],
     [email |-> "b@x.org", phone |-> P0712, password |-> PwStrong,
      userfullnames |-> "Jane", role |-> None],
     [email |-> "b@x.org", phone |-> P0722, password |-> PwStrong,
      userfullnames |-> "Jane", role |-> None]}

AdminToken == Token("ADMIN", TRUE, 0)

GoodBody ==
    [email |-> "a@x.org", phone |-> P0712, password |-> PwStrong,
     userfullnames |-> "Jane", role |-> "ADMIN"]

Workers == {"w1"}

registration(ps, toks, bodies, log) ==
    \/ \E p \in ps, data \in bodies :
         register(p, data) /\ Received(log, "register", NoToken, data)
    \/ \E p \in ps, tok \in toks, data \in bodies :
         register_admin(p, tok, data) /\ Received(log, "register_admin", tok, data)
    \/ \E p \in ps, tok \in toks, data \in bodies :
         register_doctor(p, tok, data) /\ Received(log, "register_doctor", tok, data)
    \/ \E p \in ps, tok \in toks, data \in bodies :
         register_nurse(p, tok, data) /\ Received(log, "register_nurse", tok, data)
    \/ \E p \in ps, tok \in toks, data \in bodies :
         register_receptionist(p, tok, data)
         /\ Received(log, "register_receptionist", tok, data)
    \/ \E p \in ps : register_commit(p) /\ UNCHANGED <<request, passLog, hist>>
    \/ \E p \in ps : register_admin_commit(p) /\ UNCHANGED <<request, passLog, hist>>
    \/ \E p \in ps : register_user_commit(p) /\ UNCHANGED <<request, passLog, hist>>
    \/ \E p \in ps :
         teardown(p) /\ request' = (IF log THEN NoRequest ELSE request)
         /\ UNCHANGED <<passLog, hist>>

\* history: a callback that got past the state check is logged with its state
oauth(ps, codes, profiles, log) ==
    \/ google_login /\ UNCHANGED <<request, passLog, hist>>
    \/ \E p \in ps, s \in 0..MaxStates, ok \in codes, e \in profiles :
         /\ google_callback(p, s, ok, e)
         /\ passLog' = IF log /\ proc'[p].exchanged THEN Append(passLog, s) ELSE passLog
         /\ request' = IF log
                       THEN [NoRequest EXCEPT !.op = "google_callback", !.state = s,
                                              !.code_ok = ok, !.data.email = e]
                       ELSE request
         /\ UNCHANGED hist
    \/ \E p \in ps : google_callback_provision(p) /\ UNCHANGED <<request, passLog, hist>>

\* every operation, on two workers, with well-formed registration requests
Next ==
    \/ registration(Procs, {AdminToken}, GoodBodies, FALSE)
    \/ oauth(Procs, {TRUE}, {"a@x.org"}, FALSE)
    \/ \E p \in Procs, t \in {ResetToken("a@x.org", TRUE, 0)}, pw \in {PwSix} :
         reset_password(p, t, pw) /\ UNCHANGED <<request, passLog, hist>>

Spec == Init /\ [][Next]_vars

\* requests one after the other, with every kind of request body and token
NextSequential ==
    \/ registration(Workers, {AdminToken}, Bodies, TRUE)
    \/ registration(Workers, TokenInputs, {GoodBody}, TRUE)
    \/ \E p \in Workers, R \in UserRoles, tok \in TokenInputs :
         /\ guarded_request(p, R, tok)
         /\ Received(TRUE, "guarded", tok, NoData)

SpecSequential == Init /\ [][NextSequential]_vars

\* the OAuth login next to self-registration
NextOAuth ==
    \/ oauth(Procs, BOOLEAN, ValidEmails \cup {None}, TRUE)
    \/ \E p \in Procs, data \in GoodBodies :
         register(p, data) /\ UNCHANGED <<request, passLog, hist>>
    \/ \E p \in Procs : register_commit(p) /\ UNCHANGED <<request, passLog, hist>>
    \/ \E p \in Procs : teardown(p) /\ request' = NoRequest /\ UNCHANGED <<passLog, hist>>

SpecOAuth == Init /\ [][NextOAuth]_vars

-----------------------------------------------------------------------------
(* Access tokens over time: an account, its logins, and the gate *)

PwNew == <<"n", "e", "w", "p", "w", "d">>

BodyA ==
    [email |-> "a@x.org", phone |-> P0712, password |-> PwStrong,
     userfullnames |-> "Jane", role |-> None]

BodyB ==
    [email |-> "b@x.org", phone |-> P0722, password |-> PwStrong,
     userfullnames |-> "Jane", role |-> "ADMIN"]

TokenInstants == {29 * Day, 31 * Day}

\* what a client without the signing key can present: nothing, a token it was
\* issued, or an issued token with its role claim rewritten, whose signature
\* then no longer verifies
Presentable ==
    {NoToken} \cup {i.tok : i \in hist.issued}
    \cup {[i.tok EXCEPT !.role = "ADMIN", !.sig = FALSE] : i \in hist.issued}

\* history: the request received
Logged(op, tok, data) ==
    request' = [NoRequest EXCEPT !.op = op, !.tok = tok, !.data = data]

\* history: the token a response carries, with the time of its issuance; the
\* operations completed since the first token was issued
Issued(p, op) ==
    LET t == proc'[p].access_token IN
    hist' = [hist EXCEPT
               !.issued = IF t # NoToken THEN @ \cup {[tok |-> t, at |-> now]} ELSE @,
               !.ops = IF hist.issued # {} /\ proc'[p].status = 200
                       THEN @ \cup {op} ELSE @]

LaterOps == {"login", "logout", "reset_password"}

\* history: the gate's decision on a token, kept while there is room
Decided(p, tok) ==
    LET first == \A i \in hist.issued : i.at >= tok.iat
        d == [tok |-> tok, at |-> now,
              accepted |-> proc'[p].status \in {200, 403},
              after |-> first /\ hist.ops = LaterOps]
    IN hist' = [hist EXCEPT
                  !.decisions = IF Cardinality(@ \cup {d}) <= MaxDecisions
                                THEN @ \cup {d} ELSE @]

NextTokens ==
    \/ \E p \in Workers :
         /\ register(p, BodyA) /\ Logged("register", NoToken, BodyA)
         /\ UNCHANGED <<passLog, hist>>
    \/ \E p \in Workers : register_commit(p) /\ UNCHANGED <<request, passLog, hist>>
    \/ \E p \in Workers :
         teardown(p) /\ request' = NoRequest /\ UNCHANGED <<passLog, hist>>
    \/ \E p \in Workers, pw \in {PwStrong, PwNew} :
         /\ login(p, "a@x.org", pw)
         /\ Logged("login", NoToken, [NoData EXCEPT !.email = "a@x.org", !.password = pw])
         /\ Issued(p, "login")
         /\ UNCHANGED passLog
    \/ \E p \in Workers :
         /\ logout(p) /\ Logged("logout", NoToken, NoData)
         /\ Issued(p, "logout")
         /\ UNCHANGED passLog
    \/ \E p \in Workers :
         /\ reset_password(p, ResetToken("a@x.org", TRUE, now), PwNew)
         /\ Logged("reset_password", NoToken, [NoData EXCEPT !.password = PwNew])
         /\ Issued(p, "reset_password")
         /\ UNCHANGED passLog
    \/ \E p \in Workers, R \in {"PATIENT", "ADMIN"}, tok \in Presentable :
         /\ guarded_request(p, R, tok) /\ Logged("guarded", tok, NoData)
         /\ Decided(p, tok)
         /\ UNCHANGED passLog
    \/ google_login /\ UNCHANGED <<request, passLog, hist>>
    \/ \E p \in Workers :
         /\ google_callback(p, session.oauth_state, TRUE, "a@x.org")
         /\ Logged("google_callback", NoToken, [NoData EXCEPT !.email = "a@x.org"])
         /\ Issued(p, "login")
         /\ UNCHANGED passLog
    \/ \E p \in Workers :
         google_callback_provision(p) /\ UNCHANGED <<request, passLog, hist>>
    \/ \E t \in TokenInstants : advance(t) /\ UNCHANGED <<request, passLog, hist>>

SpecTokens == Init /\ [][NextTokens]_vars

-----------------------------------------------------------------------------
(* Password reset over time: reset links mailed, redeemed, and the logins
   that follow *)

ResetInstants == {MaxAge, MaxAge + 1}

\* what a client can put in the reset URL: a token it was mailed, such a token
\* re-signed under another salt or key, such a token with its payload
\* rewritten, or a token of its own making
Redeemable ==
    mailbox \cup {[t EXCEPT !.sig = FALSE] : t \in mailbox}
    \cup {[t EXCEPT !.email = "b@x.org", !.sig = FALSE] : t \in mailbox}
    \cup {ResetToken("a@x.org", FALSE, now)}

\* history: a reset answered 200 is the last one for its e-mail, and is kept
\* with its time while there is room
Redeemed(p, token, new_password) ==
    hist' = IF proc'[p].status = 200
            THEN [hist EXCEPT
                    !.last[token.email] = new_password,
                    !.redeemed =
                        IF Len(@) < MaxRedeemed
                        THEN Append(@, [token |-> token, at |-> now,
                                        newer |-> \E t \in mailbox :
                                                     /\ t.email = token.email
                                                     /\ t.iat > token.iat])
                        ELSE @]
            ELSE hist

NextReset ==
    \/ \E p \in Workers, data \in {BodyA, BodyB} :
         /\ register(p, data) /\ Logged("register", NoToken, data)
         /\ UNCHANGED <<passLog, hist>>
    \/ \E p \in Workers : register_commit(p) /\ UNCHANGED <<request, passLog, hist>>
    \/ \E p \in Workers :
         teardown(p) /\ request' = NoRequest /\ UNCHANGED <<passLog, hist>>
    \/ \E p \in Workers, e \in {"a@x.org"}, sent \in BOOLEAN :
         /\ forgot_password(p, e, sent)
         /\ Logged("forgot_password", NoToken, [NoData EXCEPT !.email = e])
         /\ UNCHANGED <<passLog, hist>>
    \/ \E p \in Workers, token \in Redeemable,
          new_password \in {NoneStr, PwFive, PwSix, PwNew} :
         /\ reset_password(p, token, new_password)
         /\ request' = [NoRequest EXCEPT !.op = "reset_password", !.token = token,
                                         !.data.password = new_password]
         /\ Redeemed(p, token, new_password)
         /\ UNCHANGED passLog
    \/ \E p \in Workers, pw \in {<<>>, PwStrong, PwSix, PwNew} :
         /\ login(p, "a@x.org", pw)
         /\ Logged("login", NoToken, [NoData EXCEPT !.email = "a@x.org", !.password = pw])
         /\ UNCHANGED <<passLog, hist>>
    \/ \E t \in ResetInstants : advance(t) /\ UNCHANGED <<request, passLog, hist>>

SpecReset == Init /\ [][NextReset]_vars

-----------------------------------------------------------------------------
(* The validators called on their own *)

PhonePrefixes ==
    {<<>>, <<"+", "2", "5", "4">>, <<"2", "5", "4">>, <<"+", "2", "5", "4", " ">>,
     <<"0">>, <<"+">>, <<"(", "2", "5", "4", ")">>}

PhoneBodies ==
    {<<"7", "1", "2", "3">>, <<"7", "1", "2", "3", "4", "5", "6", "7">>,
     <<"7", "1", "2", "3", "4", "5", "6", "7", "8">>,
     <<"7", "1", "2", "3", "4", "5", "6", "7", "8", "9">>,
     <<"7", "1", "2", "-", "3", "4", "5", " ", "6", "7", "8">>,
     <<"7", "U+0663", "2", "3", "4", "5", "6", "7", "8">>}

PhoneStrings == {pre \o body \o suf :
                    pre \in PhonePrefixes, body \in PhoneBodies, suf \in {<<>>, <<"x">>}}

PasswordStems ==
    {<<>>, <<"a", "b", "c", "1", "2", "3", "4">>, <<"a", "b", "c", "d", "e", "f", "g">>,
     <<"1", "2", "3", "4", "5", "6", "7">>, <<"s", "h", "o", "r", "t">>,
     <<"A", "B", "Z", "1", "2", "3", "4", "5", "6">>}

PasswordEndings ==
    {<<>>, <<"5">>, <<"h">>, <<"1">>, <<"!">>, <<" ">>, <<LF>>, <<"U+0663">>,
     <<"5", LF>>, <<LF, "5">>, <<"5", LF, LF>>, <<"5", "!">>, <<"5", " ">>,
     <<" ", "5">>, <<"5", "U+0663">>}

PasswordStrings == {stem \o ending : stem \in PasswordStems, ending \in PasswordEndings}

\* the state before a validator is called on one of the strings
InitValidators ==
    /\ users = {}
    /\ nextId = 1
    /\ proc = [p \in Procs |-> Idle]
    /\ session = [oauth_state |-> 0, user_id |-> 0, user_email |-> None,
                  user_role |-> None]
    /\ nextState = 1
    /\ now = 0
    /\ mailbox = {}
    /\ call \in {[NoCall EXCEPT !.arg = s] : s \in PhoneStrings \cup PasswordStrings}
    /\ request = NoRequest
    /\ passLog = <<>>
    /\ hist = NoHistory

Called(fn, ret, ok) ==
    /\ call.fn = None
    /\ call' = [call EXCEPT !.fn = fn, !.ret = ret, !.ok = ok]
    /\ UNCHANGED <<users, nextId, proc, session, nextState, now, mailbox,
                   request, passLog, hist>>

NextValidators ==
    \/ Called("normalize_phone", normalize_phone(call.arg), None)
    \/ Called("is_valid_safaricom_phone", NoneStr,
              IF is_valid_safaricom_phone(call.arg) THEN "True" ELSE "False")
    \/ Called("validate_password", NoneStr, validate_password(call.arg))

SpecValidators == InitValidators /\ [][NextValidators]_vars

-----------------------------------------------------------------------------
(* Registration with one number written in several ways *)

PPlus254 == <<"+", "2", "5", "4", "7", "1", "2", "3", "4", "5", "6", "7", "8">>
P254 == <<"2", "5", "4", "7", "1", "2", "3", "4", "5", "6", "7", "8">>
PSpaced == <<"0", "7", "1", "2", " ", "3", "4", "5", " ", "6", "7", "8">>

SpellingBodies ==
    [email : ValidEmails, phone : {P0712, PPlus254, P254, PSpaced, P0722},
     password : {PwStrong}, userfullnames : {"Jane"}, role : {None}]

NextSpellings == registration(Workers, {AdminToken}, SpellingBodies, TRUE)

SpecSpellings == Init /\ [][NextSpellings]_vars

-----------------------------------------------------------------------------
(* Every operation of the blueprint, one request at a time *)

NextCore ==
    \/ registration(Workers, {AdminToken}, GoodBodies, FALSE)
    \/ oauth(Workers, {TRUE}, ValidEmails, FALSE)
    \/ \E p \in Workers, e \in ValidEmails, pw \in {PwStrong, PwNew} :
         login(p, e, pw) /\ UNCHANGED <<request, passLog, hist>>
    \/ \E p \in Workers : logout(p) /\ UNCHANGED <<request, passLog, hist>>
    \/ \E p \in Workers, e \in ValidEmails :
         forgot_password(p, e, TRUE) /\ UNCHANGED <<request, passLog, hist>>
    \/ \E p \in Workers, token \in mailbox :
         reset_password(p, token, PwNew) /\ UNCHANGED <<request, passLog, hist>>

SpecCore == Init /\ [][NextCore]_vars

-----------------------------------------------------------------------------
(* Who can come to hold which role: every way in, with the tokens a client
   can present *)

NextEscalation ==
    \/ \E p \in Procs, data \in {BodyA, BodyB} :
         /\ register(p, data) /\ UNCHANGED <<request, passLog, hist>>
    \/ \E p \in Procs : register_commit(p) /\ UNCHANGED <<request, passLog, hist>>
    \/ \E p \in Procs : teardown(p) /\ UNCHANGED <<request, passLog, hist>>
    \/ \E p \in Procs, e \in ValidEmails :
         /\ login(p, e, PwStrong)
         /\ Issued(p, "login")
         /\ UNCHANGED <<request, passLog>>
    \/ google_login /\ UNCHANGED <<request, passLog, hist>>
    \/ \E p \in Procs, e \in ValidEmails :
         /\ google_callback(p, session.oauth_state, TRUE, e)
         /\ Issued(p, "login")
         /\ UNCHANGED <<request, passLog>>
    \/ \E p \in Procs :
         google_callback_provision(p) /\ UNCHANGED <<request, passLog, hist>>
    \/ \E p \in Procs, tok \in Presentable :
         /\ register_admin(p, tok, BodyB)
         /\ UNCHANGED <<request, passLog, hist>>
    \/ \E p \in Procs, tok \in Presentable :
         /\ register_doctor(p, tok, BodyB)
         /\ UNCHANGED <<request, passLog, hist>>
    \/ \E p \in Procs, tok \in Presentable :
         /\ register_nurse(p, tok, BodyB)
         /\ UNCHANGED <<request, passLog, hist>>
    \/ \E p \in Procs, tok \in Presentable :
         /\ register_receptionist(p, tok, BodyB)
         /\ UNCHANGED <<request, passLog, hist>>

SpecEscalation == Init /\ [][NextEscalation]_vars

-----------------------------------------------------------------------------
(* Properties *)

RegistrationOps ==
    {"register", "register_admin", "register_doctor", "register_nurse",
     "register_receptionist"}

AdminOps == RegistrationOps \ {"register"}

Range(q) == {q[i] : i \in 1..Len(q)}

\* C1: in every reachable state of the users table, under any interleaving of
\* the registration operations, the OAuth callback and the password reset, no
\* two distinct accounts share an e-mail and no two share a phone number.
C1_UniqueEmailAndPhone ==
    \A u, v \in users :
        u # v => u.email # v.email /\ u.phone_number # v.phone_number

\* two accounts exist and a commit that collided with one of them was refused
C1_Witness ==
    /\ Cardinality(users) = 2
    /\ \E p \in Procs : proc[p].pc = "done" /\ proc[p].cause = "unique"

FixedRole(op) ==
    CASE op = "register_admin" -> "ADMIN"
      [] op = "register_doctor" -> "DOCTOR"
      [] op = "register_nurse" -> "NURSE"
      [] op = "register_receptionist" -> "RECEPTIONIST"
      [] OTHER -> "PATIENT"

\* C3: a step of registerAdmin/Doctor/Nurse/Receptionist changes the users
\* table only for a caller whose valid token carries the role ADMIN, and then
\* by adding one account with the operation's fixed role, whatever role the
\* request body names; a request of a caller without that role ends at the
\* gate and changes nothing.
C3_AdminRegistration ==
    [][\A p \in Procs :
         LET admin(t) == t.present /\ t.sig /\ now < t.exp /\ t.role = "ADMIN" IN
         /\ (proc'[p] # proc[p] /\ proc[p].op \in AdminOps /\ users' # users) =>
                /\ admin(proc[p].tok)
                /\ \E u \in users' \ users :
                       users' = users \cup {u} /\ u.role = FixedRole(proc[p].op)
         /\ (proc[p].pc = "idle" /\ proc'[p].op \in AdminOps
                /\ ~admin(proc'[p].tok)) =>
                proc'[p].pc = "done" /\ users' = users
      ]_vars

\* registerDoctor answered 201 to a body that asked for the role ADMIN, and
\* the account it made is a DOCTOR
C3_Witness ==
    \E p \in Procs :
        /\ proc[p].op = "register_doctor" /\ proc[p].status = 201
        /\ request.op = "register_doctor" /\ request.data.role = "ADMIN"
        /\ \E u \in users : u.email = request.data.email /\ u.role = "DOCTOR"

\* C4: a callback whose state parameter is missing, or whose session holds no
\* state, or whose parameter differs from the stored state, ends with the CSRF
\* error 400 whether or not its code is valid: no code exchange, no account,
\* no access token, no identity written into the browser session.
C4_StateMismatchRejected ==
    [][\A p \in Procs :
         (/\ proc[p].pc = "idle" /\ proc'[p].op = "google_callback"
          /\ \/ request'.state = 0
             \/ session.oauth_state = 0
             \/ request'.state # session.oauth_state) =>
             /\ proc'[p].pc = "done"
             /\ proc'[p].status = 400 /\ proc'[p].msg = MsgCSRF
             /\ ~proc'[p].exchanged
             /\ proc'[p].access_token = NoToken
             /\ users' = users
             /\ session'.user_id = session.user_id
             /\ session'.user_email = session.user_email
             /\ session'.user_role = session.user_role
      ]_vars

\* a callback with a valid code and a state other than the stored one got the
\* CSRF error
C4_Witness ==
    \E p \in Procs :
        /\ proc[p].op = "google_callback" /\ proc[p].msg = MsgCSRF
        /\ \A q \in Procs \ {p} : proc[q].pc = "idle"
        /\ request.op = "google_callback" /\ request.code_ok
        /\ request.state # 0 /\ request.data.email # None
        /\ nextState > 1

\* C5: every callback removes the stored state from the session, and a state
\* value that has passed verification once never passes again.
C5_StateSingleUse ==
    [][\A p \in Procs :
         (proc[p].pc = "idle" /\ proc'[p].op = "google_callback") =>
             /\ session'.oauth_state = 0
             /\ proc'[p].exchanged =>
                    /\ request'.state \notin Range(passLog)
                    /\ request'.state = session.oauth_state
      ]_vars

\* after two logins, both states were used once and a replay of a used one
\* got the CSRF error
C5_Witness ==
    /\ Len(passLog) = 2
    /\ \E p \in Procs :
        /\ proc[p].op = "google_callback" /\ proc[p].msg = MsgCSRF
        /\ \A q \in Procs \ {p} : proc[q].pc = "idle"
        /\ request.op = "google_callback" /\ request.state \in Range(passLog)

\* C6: a callback that passes state verification, exchanges its code and gets
\* a profile with an e-mail ends 200 with an access token whose subject is the
\* account with that e-mail, the account being created when it did not exist.
C6_CallbackEstablishesSession ==
    \A p \in Procs :
        LET r == proc[p] IN
        (/\ r.op = "google_callback" /\ r.pc = "done" /\ r.exchanged
         /\ r.cause \notin {"provider", "db"} /\ r.msg # MsgUserInfo) =>
            /\ r.status = 200
            /\ \E u \in users :
                   r.access_token.sub = u.id /\ r.access_token.email = u.email

\* C7: a registration whose commit hits the unique constraint, because a
\* concurrent request committed the same e-mail or phone first, is answered
\* like a failed pre-check: 400, already registered.
C7_CommitConflictAnsweredAsConflict ==
    \A p \in Procs :
        (/\ proc[p].pc = "done" /\ proc[p].op \in RegistrationOps
         /\ proc[p].cause = "unique") =>
            proc[p].status = 400 /\ proc[p].msg = MsgTaken

\* C8: in every registration operation a failure of add/commit is caught by
\* the handler, which rolls the database session back and answers 500.
C8_PersistenceFailureRolledBack ==
    \A p \in Procs :
        (/\ proc[p].pc = "done" /\ proc[p].op \in RegistrationOps
         /\ proc[p].cause \in {"db", "unique", "notnull"}) =>
            proc[p].caught /\ proc[p].dbs = "clean" /\ proc[p].status = 500

\* C9: a registration request that carries an e-mail and lacks exactly one of
\* the phone, the password and the full name is answered 400, in
\* self-registration as in the admin routes.
C9_MissingFieldAnswered400 ==
    \A p \in Workers :
        LET d == request.data
            missing == {f \in {"phone", "password", "userfullnames"} :
                           \/ f = "phone" /\ d.phone = NoneStr
                           \/ f = "password" /\ d.password = NoneStr
                           \/ f = "userfullnames" /\ d.userfullnames = None}
        IN (/\ proc[p].pc = "done" /\ proc[p].op \in RegistrationOps
            /\ request.op = proc[p].op /\ proc[p].ran
            /\ d.email # None
            /\ Cardinality(missing) = 1) =>
               proc[p].status = 400

\* the request is well formed and would register on an empty table
WellFormed(d) ==
    /\ d.email \in ValidEmails /\ d.phone \in {P0712, P0722}
    /\ d.password = PwStrong /\ d.userfullnames = "Jane"

\* C10: a registration request, otherwise acceptable, whose e-mail or whose
\* phone an account already has is answered 400 "already registered"; no
\* request with a registered e-mail or phone is answered 201; and a step that
\* answers a request at its checks leaves the users table as it was.
C10_TakenRejected ==
    [][\A p \in Workers :
         (proc[p].pc = "idle" /\ proc'[p].op \in RegistrationOps) =>
             LET d == request'.data
                 taken == \/ \E u \in users : u.email = d.email
                          \/ \E u \in users : u.phone_number = d.phone
             IN /\ (taken /\ proc'[p].ran /\ WellFormed(d)) =>
                       /\ proc'[p].pc = "done"
                       /\ proc'[p].status = 400 /\ proc'[p].msg = MsgTaken
                /\ taken => proc'[p].pc = "done" /\ proc'[p].status # 201
                /\ proc'[p].pc = "done" => users' = users
      ]_vars

\* a request with a new e-mail and a phone already registered got the conflict
C10_Witness ==
    \E p \in Workers :
        /\ proc[p].pc = "done" /\ proc[p].msg = MsgTaken
        /\ request.op = proc[p].op
        /\ \A u \in users : u.email # request.data.email
        /\ \E u \in users : u.phone_number = request.data.phone

\* C11: a token issued at time T is accepted by the gate at every time before
\* T + 30 days and refused at every time after it, and a step of any
\* operation, the clock standing still, leaves the gate's verdict on every
\* issued token as it was.
C11_TokenExpiry ==
    [][/\ \A p \in Workers :
            (/\ proc[p].pc = "idle" /\ proc'[p].op = "guarded"
             /\ \E i \in hist.issued : i.tok = request'.tok) =>
                \A i \in hist.issued :
                    i.tok = request'.tok =>
                        /\ now < i.at + 30 * Day =>
                               proc'[p].status \in {200, 403}
                        /\ now > i.at + 30 * Day =>
                               proc'[p].status \notin {200, 403} /\ ~proc'[p].ran
       /\ now' = now =>
              \A i \in hist.issued :
                  verify_jwt_in_request(i.tok)' = verify_jwt_in_request(i.tok)
      ]_vars

\* a token was accepted 29 days after its issuance, after a logout, a password
\* reset and a later login, and was refused 31 days after its issuance
C11_Witness ==
    \E i \in hist.issued, d1, d2 \in hist.decisions :
        /\ d1.tok = i.tok /\ d1.at = i.at + 29 * Day /\ d1.accepted /\ d1.after
        /\ d2.tok = i.tok /\ d2.at = i.at + 31 * Day /\ ~d2.accepted

MsgToken == "Invalid or expired token"

\* C12: a reset whose token is older than 3600 seconds, though signed, or
\* whose signature does not verify, is answered 400 "Invalid or expired
\* token", the same in both cases, and changes no stored password.
C12_StaleOrForgedTokenRejected ==
    [][\A p \in Workers :
         (/\ proc[p].pc = "idle" /\ proc'[p].op = "reset_password"
          /\ \/ ~request'.token.sig
             \/ now - request'.token.iat > 3600) =>
             /\ proc'[p].pc = "done"
             /\ proc'[p].status = 400 /\ proc'[p].msg = MsgToken
             /\ users' = users
      ]_vars

\* a mailed token, presented 3601 seconds after it was signed with an
\* acceptable new password for an account that exists, was refused
C12_Witness ==
    \E p \in Workers :
        /\ proc[p].op = "reset_password" /\ proc[p].msg = MsgToken
        /\ request.token \in mailbox /\ request.token.sig
        /\ now - request.token.iat = 3601
        /\ request.data.password = PwNew
        /\ ByEmail(request.token.email) # {}

\* the step of worker p, of operation op, that answers a request
Answers(p, op) == proc[p].pc = "idle" /\ proc'[p].op = op

\* C13 as stated: after a successful reset of e's password to p, login(e, p)
\* is answered 200 and login(e, q) 401 for every q other than p, until the
\* next successful reset for e.
C13_LoginAfterResetAsStated ==
    [][\A p \in Workers :
         LET e == request'.data.email
             q == request'.data.password
         IN (Answers(p, "login") /\ hist.last[e] # NoneStr) =>
             /\ q = hist.last[e] => proc'[p].status = 200
             /\ q # hist.last[e] => proc'[p].status = 401
      ]_vars

\* C13: after a successful reset of e's password to p (six characters or
\* more), until the next successful reset for e, login(e, p) is answered 200,
\* login(e, q) 401 for every non-empty q other than p, and login with an
\* empty password 400; a reset whose new password is absent or shorter than
\* six characters is answered 400 and changes no stored password; a
\* successful reset changes the password of the account with e-mail e and
\* nothing else in the users table.
C13_LoginAfterReset ==
    [][\A p \in Workers :
         /\ LET e == request'.data.email
                q == request'.data.password
            IN (Answers(p, "login") /\ hist.last[e] # NoneStr) =>
                /\ Len(hist.last[e]) >= 6
                /\ q = hist.last[e] => proc'[p].status = 200
                /\ (q # hist.last[e] /\ q # <<>>) => proc'[p].status = 401
                /\ q = <<>> => proc'[p].status = 400
         /\ LET np == request'.data.password IN
            Answers(p, "reset_password") =>
                /\ (np = NoneStr \/ Len(np) < 6) =>
                       proc'[p].status = 400 /\ users' = users
                /\ proc'[p].status = 200 =>
                       LET e == request'.token.email IN
                       /\ \E u \in users :
                              /\ u.email = e
                              /\ users' = (users \ {u}) \cup
                                     {[u EXCEPT !.password = generate_password_hash(np)]}
      ]_vars

\* with a second account in the table, a's password was reset twice, to
\* different passwords, and a login with the first of them is now refused
C13_Witness ==
    \E p \in Workers :
        /\ proc[p].op = "login" /\ proc[p].status = 401
        /\ request.data.email = "a@x.org"
        /\ Len(hist.redeemed) = 2
        /\ request.data.password = PwNew
        /\ hist.last["a@x.org"] = PwSix
        /\ Cardinality(users) = 2

\* C14: a token that forgot_password mailed passes the token check of every
\* reset made within 3600 seconds of its signing, whatever has been redeemed
\* or mailed since: with an acceptable new password the reset is answered 200
\* and the password is set, unless the database fails.
C14_ResetTokenNotSingleUse ==
    [][\A p \in Workers :
         LET t == request'.token
             np == request'.data.password
         IN (/\ Answers(p, "reset_password")
             /\ t \in mailbox /\ now - t.iat <= 3600) =>
                /\ proc'[p].msg # MsgToken
                /\ (np # NoneStr /\ Len(np) >= 6 /\ proc'[p].cause # "db") =>
                       /\ proc'[p].status = 200
                       /\ \E u \in users' :
                              /\ u.email = t.email
                              /\ u.password = generate_password_hash(np)
      ]_vars

\* one token was redeemed twice with success, the second time after a newer
\* token had been mailed for the same e-mail
C14_Witness ==
    /\ Len(hist.redeemed) = 2
    /\ hist.redeemed[1].token = hist.redeemed[2].token
    /\ hist.redeemed[1].token \in mailbox
    /\ hist.redeemed[2].newer

\* C15: a step of any operation removes no account and leaves the id, e-mail,
\* phone number and role of every account as they were; the password of an
\* account changes only in a step of reset_password that is answered 200.
C15_AccountsFrame ==
    [][\A u \in users :
         \E v \in users' :
             /\ v.id = u.id /\ v.email = u.email
             /\ v.phone_number = u.phone_number /\ v.role = u.role
             /\ v.userfullnames = u.userfullnames
             /\ v.password # u.password =>
                    \E p \in Procs :
                        Answers(p, "reset_password") /\ proc'[p].status = 200
      ]_vars

\* the table holds a patient and a member of staff registered after it, and
\* the password of one of them has been reset
C15_Witness ==
    /\ \E u, v \in users : u.role = "PATIENT" /\ v.role # "PATIENT" /\ u.id < v.id
    /\ \E u \in users : u.password = generate_password_hash(PwNew)
    /\ \E p \in Procs : proc[p].op = "login" /\ proc[p].status = 200

DigitsOf(s) == SelectSeq(s, IsDigit)

\* C16: normalize_phone returns the empty string for the empty string, and
\* otherwise the digits of its argument, with a leading 254 replaced by 0 when
\* the argument starts with +254 or when its digits start with 254 and are
\* twelve.
C16_NormalizePhone ==
    call.fn = "normalize_phone" =>
        LET s == call.arg
            d == DigitsOf(s)
        IN call.ret =
            IF s = <<>> THEN <<>>
            ELSE IF StartsWith(s, <<"+", "2", "5", "4">>)
                    \/ (StartsWith(d, <<"2", "5", "4">>) /\ Len(d) = 12)
            THEN <<"0">> \o SubSeq(d, 4, Len(d))
            ELSE d

\* C17: validate_password returns True exactly for the strings of eight or
\* more characters, all of them ASCII letters or ASCII digits, with a letter
\* and a digit among them.
C17_ValidatePassword ==
    call.fn = "validate_password" =>
        LET s == call.arg IN
        (call.ok = "True") <=>
            /\ Len(s) >= 8
            /\ \A i \in 1..Len(s) : s[i] \in Letters \cup Digits
            /\ \E i \in 1..Len(s) : s[i] \in Letters
            /\ \E i \in 1..Len(s) : s[i] \in Digits

\* C18: from an empty users table, with clients presenting no token, tokens
\* they were issued, or issued tokens whose role claim they rewrote, every
\* account is a PATIENT, every issued token carries the role PATIENT, and
\* every request to an admin route ends at the gate, its handler not run.
C18_NoPrivilegeEscalation ==
    /\ \A u \in users : u.role = "PATIENT"
    /\ \A i \in hist.issued : i.tok.role = "PATIENT"
    /\ \A p \in Procs :
           proc[p].op \in AdminOps =>
               proc[p].pc = "done" /\ ~proc[p].ran /\ proc[p].status # 201

\* two accounts registered themselves, one asking for the role ADMIN; an
\* admin route refused the token one of them was issued, and refused that
\* token with its role claim rewritten to ADMIN
C18_Witness ==
    /\ Cardinality(users) = 2
    /\ \E p, q \in Procs :
           /\ proc[p].op \in AdminOps /\ proc[p].status = 403
           /\ \E i \in hist.issued : i.tok = proc[p].tok
           /\ proc[q].op \in AdminOps /\ ~proc[q].ran
           /\ proc[q].tok.present /\ proc[q].tok.role = "ADMIN"

\* C19: a registration whose phone passes the validator in its normal form,
\* whose e-mail no account has and whose phone, as submitted, no account has,
\* passes the uniqueness check even when an account holds the same number
\* written otherwise; the account created stores the phone as submitted.
C19_RawPhoneUniqueness ==
    [][\A p \in Workers :
         /\ LET d == request'.data IN
            (/\ proc[p].pc = "idle" /\ proc'[p].op \in RegistrationOps
             /\ proc'[p].ran
             /\ d.email \in ValidEmails /\ d.password = PwStrong
             /\ d.userfullnames # None
             /\ normalize_phone(d.phone) \in {P0712, P0722}
             /\ \A u \in users : u.email # d.email /\ u.phone_number # d.phone) =>
                proc'[p].pc = "commit"
         /\ (proc[p].pc = "commit" /\ users' # users) =>
                \E u \in users' \ users :
                    /\ users' = users \cup {u}
                    /\ u.phone_number = request.data.phone
      ]_vars

\* after 0712345678, +254712345678 registered under another e-mail: two
\* accounts whose phone numbers have the same normal form
C19_Witness ==
    \E u, v \in users :
        /\ u.id < v.id
        /\ u.phone_number = P0712 /\ v.phone_number = PPlus254
        /\ normalize_phone(u.phone_number) = normalize_phone(v.phone_number)
        /\ \E p \in Workers : proc[p].status = 201

====
